---- MODULE Spec2Model ----
(***************************************************************************)
(* Stock lifecycle and monitoring of the inventory_management application. *)
(* The persisted tables (Router, Category, Action, Log, Monitoring,        *)
(* Notification) are the state; every view handler, signal receiver and    *)
(* background thread body of main/ is an action.  Django runs in           *)
(* autocommit mode here: no handler opens a transaction, so every ORM call *)
(* (create, save, get_or_create) is persisted when it returns.             *)
(***************************************************************************)
EXTENDS Integers, Sequences, FiniteSets, TLC

\* ------------------------------------------------------------------ bounds
MaxDay == 3          \* calendar days the clock runs through (today = 1..MaxDay)
MaxTrendDay == 5     \* the same for the dashboard's trend, whose window is Days long
MaxActions == 2      \* Action rows persisted before the model stops accepting actions
MaxThreads == 2      \* sweep threads the middleware can have spawned at a time
MaxLogs == 3         \* Log rows written before the model stops accepting logged edits

\* --------------------------------------------------------- data of the run
Stores == {"A", "B"}
NoStore == "no_store"            \* Router.store = NULL
Serials == {"X", "Y"}
NoSerial == "no_sn"              \* a request body without sn2
SecondSerials == Serials \cup {NoSerial}   \* the values of sn2
Cats == {"c1", "c2"}
NoCat == "no_cat"                \* Router.category = NULL / unknown category id
CatOrder == <<"c1", "c2">>       \* primary-key order of the Category table
StoreOrder == <<"A", "B">>       \* primary-key order of the Store table
CatStore == [c \in Cats |-> "A"] \* Category.store: both categories belong to store A

DefaultAlertOn == 50
\* Store.alert_on: A was lowered in the admin console, B keeps the default.
StoreAlertOn == [s \in Stores |-> IF s = "A" THEN 2 ELSE DefaultAlertOn]
\* Category.alert_on: c1 was lowered in the admin console, c2 keeps the default.
CatAlertOn == [c \in Cats |-> IF c = "c1" THEN 1 ELSE DefaultAlertOn]

STATUSES == <<"in_stock", "new_sale", "collected", "return", "swap">>
ACTION_TYPES == {"collect", "sale", "return", "swap"}
Roles == {"store_manager", "stock_handler"}
Days == 5                        \* length of the dashboard's trend window

VARIABLES
    today,          \* the clock: date.today() as a day number
    routers,        \* Router table: sequence of rows, the id is the index
    categories,     \* Category table: id -> [deleted, alerted]
    actions,        \* Action table: sequence of rows
    logs,           \* Log table: sequence of rows
    monitoring,     \* Monitoring table: sequence of rows
    notifications,  \* Notification table: sequence of rows
    sweep,          \* the sweep threads spawned by the middleware
    req,            \* the ActionsView.post requests in flight (interleaved runs)
    last            \* the last handler or thread run and its response

vars == <<today, routers, categories, actions, logs, monitoring, notifications,
          sweep, req, last>>

Threads == 1..MaxThreads
Procs == {1, 2}

\* The element of a one-element set.  "The({F(x) : x \in {e}})" is F(e) with e
\* evaluated once.
The(S) == CHOOSE x \in S : TRUE

\* ------------------------------------------------------------------ models.py
\* Router(store=None, category=None, status=STATUSES[0][0], deleted=False,
\* shipped=False)
NewRouter(sn, st, cat) ==
    [sn |-> sn, store |-> st, category |-> cat, status |-> STATUSES[1],
     deleted |-> FALSE, shipped |-> FALSE]

\* Store.count_routers
StoreCountRouters(rs, st) ==
    Cardinality({i \in DOMAIN rs :
        rs[i].store = st /\ ~rs[i].deleted /\ rs[i].status = "in_stock"})

\* Category.count_routers
CategoryCountRouters(rs, c) ==
    Cardinality({i \in DOMAIN rs :
        rs[i].category = c /\ ~rs[i].deleted /\ rs[i].status = "in_stock"})

\* The test of line 224 with date_sent__gt in the place of date_sent__gte.
NotifiedAfterToday(ns, st, day) ==
    \E i \in DOMAIN ns : ns[i].store = st /\ ns[i].date_sent > day

\* Notification.objects.filter(store=store, date_sent__gte=today_midnight()).exists()
NotifiedToday(ns, st, day) ==
    \E i \in DOMAIN ns : ns[i].store = st /\ ns[i].date_sent >= day

\* What the email service does with one message: it accepts it, or the client
\* call of line 212 raises.
MailOutcomes == {"sent", "raises"}

\* send_email without its try/except: the exception of the client call reaches
\* the caller.
send_email_unguarded(sink) ==
    IF sink = "raises" THEN "ClientError" ELSE "none"

\* send_email (the same function in models.py and in common.py): the exception
\* its caller sees, "none" for a normal return.  Lines 214-215 catch whatever
\* the body raised and log it.
send_email(sink) ==
    LET raised == IF sink = "raises" THEN "ClientError" ELSE "none"
    IN  IF raised # "none" THEN "none" ELSE raised

\* router_changed with the test of line 224 as count <= store.alert_on.
router_changed_at_threshold(rs, ns, inst, day, sink) ==
    IF /\ inst.store # NoStore
       /\ StoreCountRouters(rs, inst.store) <= StoreAlertOn[inst.store]
       /\ ~NotifiedToday(ns, inst.store, day)
    THEN IF send_email(sink) # "none"
         THEN [ns |-> ns, exc |-> TRUE]
         ELSE [ns |-> Append(ns, [store |-> inst.store, date_sent |-> day]),
               exc |-> FALSE]
    ELSE [ns |-> ns, exc |-> FALSE]

\* post_save receiver of Router: the low-stock check of the instance's store.
\* Returns the Notification table after the receiver ran and whether an
\* exception left it (line 225 raising skips line 226).
router_changed(rs, ns, inst, day, sink) ==
    IF /\ inst.store # NoStore
       /\ StoreCountRouters(rs, inst.store) < StoreAlertOn[inst.store]
       /\ ~NotifiedToday(ns, inst.store, day)
    THEN IF send_email(sink) # "none"
         THEN [ns |-> ns, exc |-> TRUE]
         ELSE [ns |-> Append(ns, [store |-> inst.store, date_sent |-> day]),
               exc |-> FALSE]
    ELSE [ns |-> ns, exc |-> FALSE]

\* Model.save() of a loaded Router instance: every field of the row is
\* overwritten by the instance's, then post_save runs.
\* db is the record [routers, notifications, actions, mail, exc]: the tables a
\* handler writes, what the email service does during the request, and whether
\* an exception is on its way to the caller.
RouterSave(db, id, inst, day) ==
    The({The({[db EXCEPT !.routers = rs, !.notifications = sig.ns, !.exc = sig.exc] :
              sig \in {router_changed(rs, db.notifications, inst, day, db.mail)}}) :
         rs \in {[db.routers EXCEPT ![id] = inst]}})

\* Router.objects.create(...): the row is inserted, then post_save runs.
RouterCreate(db, inst, day) ==
    The({The({[db EXCEPT !.routers = rs, !.notifications = sig.ns, !.exc = sig.exc] :
              sig \in {router_changed(rs, db.notifications, inst, day, db.mail)}}) :
         rs \in {Append(db.routers, inst)}})

\* BySerial over the rows that are not soft-deleted: a serial number unique
\* among the live routers only.
BySerialLive(rs, sn) ==
    IF \E i \in DOMAIN rs : rs[i].sn = sn /\ ~rs[i].deleted
    THEN CHOOSE i \in DOMAIN rs : rs[i].sn = sn /\ ~rs[i].deleted
    ELSE 0

\* id of the row with this serial number, 0 when there is none
\* (serial_number is unique=True, so there is at most one)
BySerial(rs, sn) ==
    IF \E i \in DOMAIN rs : rs[i].sn = sn
    THEN CHOOSE i \in DOMAIN rs : rs[i].sn = sn
    ELSE 0

\* Router.objects.filter(store=store, serial_number=sn).first()
ByStoreSerial(rs, st, sn) ==
    IF \E i \in DOMAIN rs : rs[i].sn = sn /\ rs[i].store = st
    THEN CHOOSE i \in DOMAIN rs : rs[i].sn = sn /\ rs[i].store = st
    ELSE 0

\* Router.objects.get_or_create(serial_number=sn): [db, id, created]
RouterGetOrCreate(db, sn, day) ==
    LET id == BySerial(db.routers, sn)
    IN  IF id # 0
        THEN [db |-> db, id |-> id, created |-> FALSE]
        ELSE [db |-> RouterCreate(db, NewRouter(sn, NoStore, NoCat), day),
              id |-> Len(db.routers) + 1, created |-> TRUE]

\* ------------------------------------------------- views.py: ActionsView.post
NoRouter == NewRouter(NoSerial, NoStore, NoCat)   \* stands for the Python value None

\* The instance a lookup g = [db, id, created] hands to the handler: the row as
\* read, with store = the acting store, in memory only, when it was just created
\* (lines 1074-1075, 1083-1084).
Loaded(g, st) ==
    IF g.id = 0 THEN NoRouter
    ELSE IF g.created THEN [g.db.routers[g.id] EXCEPT !.store = st]
    ELSE g.db.routers[g.id]

\* Lines 1067-1076: router1 by (store, sn1); for return and swap, when the store
\* has none, by sn1 alone, created when absent.
ResolveFirst(db, st, act, sn1, day) ==
    IF ByStoreSerial(db.routers, st, sn1) = 0 /\ act \in {"return", "swap"}
    THEN RouterGetOrCreate(db, sn1, day)
    ELSE [db |-> db, id |-> ByStoreSerial(db.routers, st, sn1), created |-> FALSE]

\* Lines 1078-1084: without router1 the handler returns; else router2 by sn2,
\* created when absent, whatever the action type.
ResolveSecond(g1, sn2, day) ==
    IF g1.id # 0 /\ sn2 # NoSerial
    THEN RouterGetOrCreate(g1.db, sn2, day)
    ELSE [db |-> g1.db, id |-> 0, created |-> FALSE]

\* Lines 1067-1084: [db, id1, r1, id2, r2]; id 0 is None.
Resolve(db, st, act, sn1, sn2, day) ==
    The({The({[db |-> g2.db, id1 |-> g1.id, r1 |-> Loaded(g1, st),
               id2 |-> g2.id, r2 |-> Loaded(g2, st)] :
              g2 \in {ResolveSecond(g1, sn2, day)}}) :
         g1 \in {ResolveFirst(db, st, act, sn1, day)}})

\* Line 1127: collect is allowed from new_sale and in_stock
CollectAllowed(status) == status = STATUSES[2] \/ status = STATUSES[1]

\* Line 1136: sale is allowed from in_stock
SaleAllowed(status) == status = STATUSES[1]

\* Lines 1086-1148: the if/elif chain on the action type, on the loaded instances.
\* Returns [outcome, message, r1, r2, router2]: outcome "ok" goes on to persist,
\* "rejected" is an early return, "error" an exception caught at line 1157
\* (router2 is None in the swap branch, or send_email of lines 1105, 1125, 1148
\* lets one through).  sink is what the email service does.
Transition(act, st, r1, id2, r2, sink) ==
    LET ok(n1, n2, a2) ==
            IF send_email(sink) # "none"
            THEN [outcome |-> "error", message |-> "error", r1 |-> r1, r2 |-> r2,
                  router2 |-> 0]
            ELSE [outcome |-> "ok", message |-> "", r1 |-> n1, r2 |-> n2, router2 |-> a2]
        quiet(n1, n2, a2) ==
            [outcome |-> "ok", message |-> "", r1 |-> n1, r2 |-> n2, router2 |-> a2]
        no(outcome, msg) ==
            [outcome |-> outcome, message |-> msg, r1 |-> r1, r2 |-> r2, router2 |-> 0]
    IN  CASE act = "return" ->
                ok([r1 EXCEPT !.status = STATUSES[4], !.store = st], r2, 0)
          [] act = "swap" ->
                IF id2 = 0 THEN no("error", "error")
                ELSE ok([r1 EXCEPT !.status = STATUSES[3], !.store = st],
                        [r2 EXCEPT !.status = STATUSES[5]], id2)
          [] act = "collect" ->
                IF ~CollectAllowed(r1.status)
                THEN no("rejected", IF r1.status = STATUSES[3]
                                    THEN "already collected" ELSE "not sold")
                ELSE quiet([r1 EXCEPT !.status = STATUSES[3]], r2, 0)
          [] act = "sale" ->
                IF ~SaleAllowed(r1.status)
                THEN no("rejected", IF r1.status = STATUSES[2] THEN "already sold"
                                    ELSE IF r1.status = STATUSES[3] THEN "already collected"
                                    ELSE "not in stock")
                ELSE ok([r1 EXCEPT !.status = STATUSES[2]], r2, 0)
          [] OTHER -> quiet(r1, r2, 0)

\* Line 1150: Action.objects.create(...)
ActionCreate(db, st, act, id1, router2) ==
    [db EXCEPT !.actions =
        Append(@, [store |-> st, action |-> act, router |-> id1, router2 |-> router2])]

\* Lines 1150-1153: the Action row, router1.save(), router2.save(), each committed
\* on its own.  failAt names the statement that raises ("none": no statement does);
\* what was written before it stays written.  t is the Transition taken.  An
\* exception that leaves a post_save receiver leaves save() after the row is
\* written, and is caught at line 1157 like any other.
Persist(db, st, act, id1, id2, t, day, failAt) ==
    IF failAt = "action" THEN [db |-> db, status |-> 500, message |-> "error"]
    ELSE The({
        IF failAt = "router1" THEN [db |-> d1, status |-> 500, message |-> "error"]
        ELSE The({
            IF d2.exc \/ (failAt = "router2" /\ id2 # 0)
            THEN [db |-> d2, status |-> 500, message |-> "error"]
            ELSE The({
                IF d3.exc
                THEN [db |-> d3, status |-> 500, message |-> "error"]
                ELSE [db |-> d3, status |-> 200, message |-> ""] :
                d3 \in {IF id2 # 0 THEN RouterSave(d2, id2, t.r2, day) ELSE d2}}) :
            d2 \in {RouterSave(d1, id1, t.r1, day)}}) :
        d1 \in {ActionCreate(db, st, act, id1, t.router2)}})

\* Lines 1078-1159 once the routers are resolved: [db, status, message]
Answer(rv, st, act, day, failAt) ==
    IF rv.id1 = 0
    THEN [db |-> rv.db, status |-> 500, message |-> "not found"]
    ELSE The({
        IF t.outcome # "ok"
        THEN [db |-> rv.db, status |-> 500, message |-> t.message]
        ELSE Persist(rv.db, st, act, rv.id1, rv.id2, t, day, failAt) :
        t \in {Transition(act, st, rv.r1, rv.id2, rv.r2, rv.db.mail)}})

\* ActionsView.post as a whole: [db, status, message]
ActionsPost(db, st, act, sn1, sn2, day, failAt) ==
    The({Answer(rv, st, act, day, failAt) : rv \in {Resolve(db, st, act, sn1, sn2, day)}})

\* The tables as a handler finds them, with an email service that accepts.
Tables ==
    [routers |-> routers, notifications |-> notifications, actions |-> actions,
     mail |-> "sent", exc |-> FALSE]

\* The same with an email service that does as sink says.
TablesWith(sink) == [Tables EXCEPT !.mail = sink]

\* One request to ActionsView.post, run from its first line to its response,
\* whatever the email service does meanwhile.
ApplyAction(st, act, sn1, sn2) ==
    /\ Len(actions) < MaxActions
    /\ \E sink \in MailOutcomes :
       \E out \in {ActionsPost(TablesWith(sink), st, act, sn1, sn2, today, "none")} :
           /\ routers' = out.db.routers
           /\ notifications' = out.db.notifications
           /\ actions' = out.db.actions
           /\ last' = [op |-> "action", status |-> out.status, message |-> out.message]
    /\ UNCHANGED <<today, categories, logs, monitoring, sweep, req>>

\* -------------------------------------------- views.py: CreateRouterView.post
\* Log.objects.create(store, instance, instance_id, action)
LogCreate(ls, st, inst, id, act) ==
    Append(ls, [store |-> st, action |-> act, instance |-> inst, instance_id |-> id])

\* One request to CreateRouterView.post by a user of store st with this role.
\* cat is the category id of the body (NoCat: an id no Category has).
CreateRouter(role, st, cat, sn) ==
    LET id == Len(routers) + 1
        \* lines 607-608: Router.objects.create(...), then router.save()
        d2 == The({RouterSave(d1, id, d1.routers[id], today) :
                   d1 \in {RouterCreate(Tables, NewRouter(sn, st, cat), today)}})
        resp(status, msg) == [op |-> "create_router", status |-> status, message |-> msg]
    IN  IF role # "store_manager"
        THEN /\ last' = resp(403, "no permissions")
             /\ UNCHANGED <<today, routers, categories, actions, logs, monitoring,
                            notifications, sweep, req>>
        ELSE IF BySerial(routers, sn) # 0                    \* IntegrityError
        THEN /\ last' = resp(500, "already exists")
             /\ UNCHANGED <<today, routers, categories, actions, logs, monitoring,
                            notifications, sweep, req>>
        ELSE IF cat = NoCat               \* category is None: line 610 raises
        THEN /\ \E d \in {d2} : routers' = d.routers /\ notifications' = d.notifications
             /\ last' = resp(500, "error")
             /\ UNCHANGED <<today, categories, actions, logs, monitoring, sweep, req>>
        ELSE /\ \E d \in {d2} : routers' = d.routers /\ notifications' = d.notifications
             /\ categories' = [categories EXCEPT ![cat].alerted = FALSE]
             /\ logs' = LogCreate(logs, st, "router", id, "add")
             /\ last' = resp(200, "")
             /\ UNCHANGED <<today, actions, monitoring, sweep, req>>

\* ------------------------------- views.py: CreateRoutersView, CategoryView
\* Lines 663-669 from the k-th serial number of the list on: each router is
\* created, saved and logged; a serial number already taken raises
\* IntegrityError, which line 668 catches.  w is [db, logs].
RECURSIVE CreateEach(_, _, _, _, _, _)
CreateEach(w, st, cat, sns, k, day) ==
    IF k > Len(sns) THEN w
    ELSE IF BySerial(w.db.routers, sns[k]) # 0
    THEN CreateEach(w, st, cat, sns, k + 1, day)
    ELSE The({CreateEach([db |-> RouterSave(d1, Len(d1.routers),
                                            d1.routers[Len(d1.routers)], day),
                          logs |-> LogCreate(w.logs, st, "router", Len(d1.routers), "add")],
                         st, cat, sns, k + 1, day) :
              d1 \in {RouterCreate(w.db, NewRouter(sns[k], st, cat), day)}})

\* One request to CreateRoutersView.post by a user of store st with this role:
\* the serial numbers sns for the category id cat (NoCat: no such Category).
CreateRouters(role, st, cat, sns) ==
    LET resp(code, msg) == [op |-> "create_routers", status |-> code, message |-> msg]
    IN  IF role # "store_manager"
        THEN /\ last' = resp(403, "no permissions")
             /\ UNCHANGED <<today, routers, categories, actions, logs, monitoring,
                            notifications, sweep, req>>
        ELSE \E w \in {CreateEach([db |-> Tables, logs |-> logs], st, cat, sns, 1, today)} :
             /\ routers' = w.db.routers
             /\ notifications' = w.db.notifications
             /\ logs' = w.logs
             /\ IF cat = NoCat              \* category is None: line 671 raises
                THEN last' = resp(500, "error") /\ UNCHANGED categories
                ELSE /\ categories' = [categories EXCEPT ![cat].alerted = FALSE]
                     /\ last' = resp(200, "")
             /\ UNCHANGED <<today, actions, monitoring, sweep, req>>

\* Category.objects.filter(store=store, id=id).first(); NoCat is None
CategoryByStoreId(st, cat) == IF cat \in Cats /\ CatStore[cat] = st THEN cat ELSE NoCat

\* One request to CategoryView.put by a user of store st with this role: the
\* category gets the name and type of the body and is saved.
CategoryPut(role, st, cat) ==
    LET resp(code, msg) == [op |-> "category_put", status |-> code, message |-> msg]
        unchanged == UNCHANGED <<today, routers, categories, actions, logs, monitoring,
                                 notifications, sweep, req>>
    IN  IF role # "store_manager"
        THEN last' = resp(403, "no permissions") /\ unchanged
        ELSE IF CategoryByStoreId(st, cat) = NoCat
        THEN last' = resp(500, "error") /\ unchanged
        ELSE /\ logs' = LogCreate(logs, st, "category", cat, "edit")
             /\ last' = resp(200, "Category edited successfully")
             /\ UNCHANGED <<today, routers, categories, actions, monitoring,
                            notifications, sweep, req>>

\* One request to CategoryView.delete by a user of store st with this role.
CategoryDelete(role, st, cat) ==
    LET resp(code, msg) == [op |-> "category_delete", status |-> code, message |-> msg]
        unchanged == UNCHANGED <<today, routers, categories, actions, logs, monitoring,
                                 notifications, sweep, req>>
    IN  IF role # "store_manager"
        THEN last' = resp(403, "no permissions") /\ unchanged
        ELSE IF CategoryByStoreId(st, cat) = NoCat
        THEN last' = resp(500, "error") /\ unchanged
        ELSE /\ categories' = [categories EXCEPT ![cat].deleted = TRUE]
             /\ logs' = LogCreate(logs, st, "category", cat, "delete")
             /\ last' = resp(200, "Category deleted successfully")
             /\ UNCHANGED <<today, routers, actions, monitoring, notifications,
                            sweep, req>>

\* ------------------------------------ views.py: RouterView, SwitchStore
\* The ids a request body can name: the rows the table can hold, and 0 for an
\* id no row has.
RouterIds == 0..Cardinality(Serials)

\* Router.objects.filter(id=id).first(); 0 is None
RouterById(rs, id) == IF id \in DOMAIN rs THEN id ELSE 0

\* Router.objects.filter(store=store, id=id).first(); 0 is None
RouterByStoreId(rs, st, id) ==
    IF id \in DOMAIN rs /\ rs[id].store = st THEN id ELSE 0

\* One request to SwitchStore.post: router_id id, new_store st (NoStore: an id
\* no Store has).  The handler checks neither role nor store of the user.
SwitchStorePost(id, st) ==
    LET resp(status, msg) == [op |-> "switch_store", status |-> status, message |-> msg]
    IN  IF RouterById(routers, id) # 0 /\ st # NoStore
        THEN /\ \E d \in {RouterSave(Tables, id, [routers[id] EXCEPT !.store = st], today)} :
                    routers' = d.routers /\ notifications' = d.notifications
             /\ last' = resp(200, "Store switched successfully")
             /\ UNCHANGED <<today, categories, actions, logs, monitoring, sweep, req>>
        ELSE /\ last' = resp(500, IF RouterById(routers, id) # 0
                                  THEN "Store not found" ELSE "Router not found")
             /\ UNCHANGED <<today, routers, categories, actions, logs, monitoring,
                            notifications, sweep, req>>

\* One request to RouterView.post (import) by a user of store st whose list
\* holds one router: its id, its category's name cat and its serial number sn.
\* Lines 777-802 catch whatever the item raises; the answer is always 200.
RouterImport(st, id, cat, sn) ==
    LET resp(n) == [op |-> "router_import", status |-> 200, message |-> n]
        unchanged == UNCHANGED <<today, routers, categories, actions, logs, monitoring,
                                 notifications, sweep, req>>
    IN  IF cat = NoCat                                    \* line 798
        THEN last' = resp("0 routers imported") /\ unchanged
        ELSE IF RouterById(routers, id) = 0               \* lines 781-786
        THEN IF BySerial(routers, sn) # 0                 \* IntegrityError
             THEN last' = resp("0 routers imported") /\ unchanged
             ELSE /\ \E d1 \in {RouterCreate(Tables, NewRouter(sn, st, cat), today)} :
                     \E d2 \in {RouterSave(d1, Len(d1.routers), d1.routers[Len(d1.routers)],
                                           today)} :
                         routers' = d2.routers /\ notifications' = d2.notifications
                  /\ logs' = LogCreate(logs, st, "router", Len(routers) + 1, "add")
                  /\ last' = resp("1 routers imported")
                  /\ UNCHANGED <<today, categories, actions, monitoring, sweep, req>>
        ELSE IF routers[id].deleted                       \* lines 788-796
        THEN IF BySerial(routers, sn) \notin {0, id}      \* IntegrityError
             THEN last' = resp("0 routers imported") /\ unchanged
             ELSE /\ \E d \in {RouterSave(Tables, id,
                                     [routers[id] EXCEPT !.category = cat, !.sn = sn,
                                                         !.deleted = FALSE], today)} :
                         routers' = d.routers /\ notifications' = d.notifications
                  /\ logs' = LogCreate(logs, st, "router", id, "add")
                  /\ last' = resp("1 routers imported")
                  /\ UNCHANGED <<today, categories, actions, monitoring, sweep, req>>
        ELSE last' = resp("0 routers imported") /\ unchanged

\* One request to RouterView.put by a user of store st with this role: the
\* router id gets category cat, serial number sn and status status.
RouterPut(role, st, id, cat, sn, status) ==
    LET resp(code, msg) == [op |-> "router_put", status |-> code, message |-> msg]
        unchanged == UNCHANGED <<today, routers, categories, actions, logs, monitoring,
                                 notifications, sweep, req>>
    IN  IF role # "store_manager"
        THEN last' = resp(403, "no permissions") /\ unchanged
        ELSE IF RouterByStoreId(routers, st, id) = 0      \* router is None: line 828 raises
        THEN last' = resp(500, "error") /\ unchanged
        ELSE IF BySerial(routers, sn) \notin {0, id}      \* IntegrityError
        THEN last' = resp(500, "error") /\ unchanged
        ELSE /\ \E d \in {RouterSave(Tables, id,
                                [routers[id] EXCEPT !.category = cat, !.sn = sn,
                                                    !.status = status], today)} :
                    routers' = d.routers /\ notifications' = d.notifications
             /\ logs' = LogCreate(logs, st, "router", id, "edit")
             /\ last' = resp(200, "Router edited successfully")
             /\ UNCHANGED <<today, categories, actions, monitoring, sweep, req>>

\* One request to RouterView.delete by a user of store st with this role.
RouterDelete(role, st, id) ==
    LET resp(code, msg) == [op |-> "router_delete", status |-> code, message |-> msg]
        unchanged == UNCHANGED <<today, routers, categories, actions, logs, monitoring,
                                 notifications, sweep, req>>
    IN  IF role # "store_manager"
        THEN last' = resp(403, "no permissions") /\ unchanged
        ELSE IF RouterByStoreId(routers, st, id) = 0
        THEN last' = resp(500, "error") /\ unchanged
        ELSE /\ \E d \in {RouterSave(Tables, id, [routers[id] EXCEPT !.deleted = TRUE],
                                      today)} :
                    routers' = d.routers /\ notifications' = d.notifications
             /\ logs' = LogCreate(logs, st, "router", id, "delete")
             /\ last' = resp(200, "Router deleted successfully")
             /\ UNCHANGED <<today, categories, actions, monitoring, sweep, req>>

\* One request to RouterView.patch by a user of store st (any role).
RouterPatch(st, id) ==
    LET resp(code, msg) == [op |-> "router_patch", status |-> code, message |-> msg]
        unchanged == UNCHANGED <<today, routers, categories, actions, logs, monitoring,
                                 notifications, sweep, req>>
    IN  IF id = 0                                         \* if router_id: is false
        THEN last' = resp(500, "error") /\ unchanged
        ELSE IF RouterByStoreId(routers, st, id) = 0
        THEN last' = resp(400, "Router not found") /\ unchanged
        ELSE /\ \E d \in {RouterSave(Tables, id,
                                [routers[id] EXCEPT !.shipped = ~routers[id].shipped],
                                today)} :
                    routers' = d.routers /\ notifications' = d.notifications
             /\ last' = resp(200, "Router shipment status updated successfully")
             /\ UNCHANGED <<today, categories, actions, logs, monitoring, sweep, req>>

\* ------------------------------------------------------------------ common.py
\* Category.objects.filter(store=store), in primary-key order
CategoriesOf(st) == SelectSeq(CatOrder, LAMBDA c : CatStore[c] = st)

\* The (store, category) pairs create_monitoring walks through, in its order.
SweepList == CategoriesOf(StoreOrder[1]) \o CategoriesOf(StoreOrder[2])

\* The rows get_or_create(store=store, category=category, day__gte=min_today_time)
\* looks up.
MonitoringMatches(ms, c, day) ==
    {i \in DOMAIN ms : ms[i].store = CatStore[c] /\ ms[i].category = c /\ ms[i].day >= day}

\* The create of get_or_create: Monitoring(store, category), routers = 0, day = today
MonitoringCreate(ms, c, day) ==
    Append(ms, [store |-> CatStore[c], category |-> c, routers |-> 0, day |-> day])

\* monitor.routers = routers; monitor.save()   (day is auto_now)
MonitoringSave(ms, id, n, day) ==
    [ms EXCEPT ![id] = [@ EXCEPT !.routers = n, !.day = day]]

\* Lines 25-31 with Monitoring.objects.create in the place of get_or_create.
MonitoringInsert(ms, rs, c, day) ==
    MonitoringSave(MonitoringCreate(ms, c, day), Len(ms) + 1,
                   CategoryCountRouters(rs, c), day)

\* Lines 25-31 for one category: a single matching row is updated, none makes
\* one, several make get() raise MultipleObjectsReturned, which line 30 logs.
MonitoringUpsert(ms, rs, c, day) ==
    The({IF m = {}
         THEN MonitoringSave(MonitoringCreate(ms, c, day), Len(ms) + 1,
                             CategoryCountRouters(rs, c), day)
         ELSE IF Cardinality(m) = 1
         THEN MonitoringSave(ms, The(m), CategoryCountRouters(rs, c), day)
         ELSE ms :
         m \in {MonitoringMatches(ms, c, day)}})

\* create_monitoring from the k-th pair of its walk on
RECURSIVE create_monitoring(_, _, _, _)
create_monitoring(ms, rs, k, day) ==
    IF k > Len(SweepList) THEN ms
    ELSE The({create_monitoring(m2, rs, k + 1, day) :
              m2 \in {MonitoringUpsert(ms, rs, SweepList[k], day)}})

\* create_alerts with the test of line 41 as count <= category.alert_on.
create_alerts_at_threshold(cs, rs) ==
    [c \in Cats |->
        IF ~cs[c].alerted /\ CategoryCountRouters(rs, c) <= CatAlertOn[c]
        THEN [cs[c] EXCEPT !.alerted = TRUE]
        ELSE cs[c]]

\* create_alerts: every category not alerted yet whose count is below its
\* alert_on becomes alerted.
create_alerts(cs, rs) ==
    [c \in Cats |->
        IF ~cs[c].alerted /\ CategoryCountRouters(rs, c) < CatAlertOn[c]
        THEN [cs[c] EXCEPT !.alerted = TRUE]
        ELSE cs[c]]

\* -------------------------------------------------------------- middleware.py
IdleThread == [pc |-> "idle", k |-> 0, n |-> 0, monitor |-> 0, alerts |-> FALSE]

\* Monitoring.objects.filter(day__gte=min_today_time).exists()
MonitoredToday(ms, day) == \E i \in DOMAIN ms : ms[i].day >= day

\* MonitoringCreationMiddleware.process_request for a request to '/': when no
\* Monitoring row of today exists, one create_monitoring thread and one
\* create_alerts thread are started (slot t holds the pair).
ProcessRequest(t) ==
    /\ sweep[t] = IdleThread
    /\ \A u \in Threads : u < t => sweep[u] # IdleThread
    /\ IF ~MonitoredToday(monitoring, today)
       THEN sweep' = [sweep EXCEPT ![t] =
                [IdleThread EXCEPT !.pc = "start", !.k = 1, !.alerts = TRUE]]
       ELSE UNCHANGED sweep
    /\ last' = [op |-> "home"]
    /\ UNCHANGED <<today, routers, categories, actions, logs, monitoring,
                   notifications, req>>

\* The create_monitoring thread of slot t, run from start to end.
RunMonitoring(t) ==
    /\ sweep[t].pc = "start"
    /\ monitoring' = create_monitoring(monitoring, routers, 1, today)
    /\ sweep' = [sweep EXCEPT ![t].pc = "idle", ![t].k = 0]
    /\ last' = [op |-> "sweep",
                found |-> {c \in Cats : MonitoringMatches(monitoring, c, today) # {}},
                stale |-> {c \in Cats : \E i \in MonitoringMatches(monitoring, c, today) :
                              monitoring[i].routers # CategoryCountRouters(routers, c)}]
    /\ UNCHANGED <<today, routers, categories, actions, logs, notifications, req>>

\* The create_alerts thread of slot t, run from start to end.
RunAlerts(t) ==
    /\ sweep[t].alerts
    /\ categories' = create_alerts(categories, routers)
    /\ sweep' = [sweep EXCEPT ![t].alerts = FALSE]
    /\ last' = [op |-> "alerts"]
    /\ UNCHANGED <<today, routers, actions, logs, monitoring, notifications, req>>

\* Midnight: date.today() moves on, up to day limit.
Midnight(limit) ==
    /\ today < limit
    /\ today' = today + 1
    /\ last' = [op |-> "midnight"]
    /\ UNCHANGED <<routers, categories, actions, logs, monitoring, notifications,
                   sweep, req>>

\* ------------------------------------------------ views.py: DashboardView.get
\* Line 345: days[k], k = 1..5, the last five days, days[5] being today
DayAt(day, k) == day - (Days - k)

\* Line 439: Monitoring.objects.filter(store, category, day).first(); 0 is None
MonitoringOf(ms, st, c, d) ==
    The({IF m = {} THEN 0 ELSE CHOOSE i \in m : \A j \in m : i <= j :
         m \in {{i \in DOMAIN ms : ms[i].store = st /\ ms[i].category = c /\ ms[i].day = d}}})

\* Lines 440-446 with the test of line 440 on monitoring.routers, which takes a
\* stored count of 0 for a missing row.
PastValueTruthy(ms, obj, id) ==
    IF id # 0 /\ ms[id].routers # 0 THEN ms[id].routers
    ELSE IF Len(obj) > 0 THEN obj[Len(obj)] ELSE 0

\* Lines 440-446: the value appended for a past day, obj being the list so far
PastValue(ms, obj, id) ==
    IF id # 0 THEN ms[id].routers
    ELSE IF Len(obj) > 0 THEN obj[Len(obj)] ELSE 0

\* Lines 429-446: the list obj of one category after its first k days
RECURSIVE CategoryValues(_, _, _, _, _, _)
CategoryValues(ms, rs, st, c, day, k) ==
    IF k = 0 THEN <<>>
    ELSE The({IF k = Days
              THEN Append(obj, CategoryCountRouters(rs, c))
              ELSE Append(obj, PastValue(ms, obj, MonitoringOf(ms, st, c, DayAt(day, k)))) :
              obj \in {CategoryValues(ms, rs, st, c, day, k - 1)}})

\* Line 424: Category.objects.filter(store=store, deleted=False)
routers_categories(cs, st) == {c \in Cats : CatStore[c] = st /\ ~cs[c].deleted}

\* The Python value None in a list of totals.
None == -1

\* Lines 463-467 summed over the first i rows of the Monitoring table: a row of
\* store st and day d adds its routers, every other row adds 0.
RECURSIVE SumCase(_, _, _, _)
SumCase(ms, st, d, i) ==
    IF i = 0 THEN 0
    ELSE The({rest + (IF ms[i].store = st /\ ms[i].day = d THEN ms[i].routers ELSE 0) :
              rest \in {SumCase(ms, st, d, i - 1)}})

\* Lines 468-469: Monitoring.objects.aggregate(total=Sum(condition)); the Sum
\* over an empty table is None.
StoreTotal(ms, st, d) ==
    IF Len(ms) = 0 THEN None ELSE SumCase(ms, st, d, Len(ms))

\* Lines 471-475: the total appended for a past day, obj being the list so far
PastTotal(ms, st, d, obj, total) ==
    IF /\ total = None \/ total = 0
       /\ Len(obj) > 0
       /\ ~\E i \in DOMAIN ms : ms[i].store = st /\ ms[i].day = d
    THEN obj[Len(obj)]
    ELSE total

\* Lines 453-475: the list store_monitors after its first k days
RECURSIVE StoreValues(_, _, _, _, _)
StoreValues(ms, rs, st, day, k) ==
    IF k = 0 THEN <<>>
    ELSE The({IF k = Days
              THEN Append(obj, StoreCountRouters(rs, st))
              ELSE Append(obj, PastTotal(ms, st, DayAt(day, k), obj,
                                         StoreTotal(ms, st, DayAt(day, k)))) :
              obj \in {StoreValues(ms, rs, st, day, k - 1)}})

\* One request to DashboardView.get by a user of store st: context['monitors']
\* and context['store_monitors'].
DashboardGet(st) ==
    /\ last' = [op |-> "dashboard", store |-> st,
                monitors |-> [c \in routers_categories(categories, st) |->
                    CategoryValues(monitoring, routers, st, c, today, Days)],
                store_monitors |-> StoreValues(monitoring, routers, st, today, Days)]
    /\ UNCHANGED <<today, routers, categories, actions, logs, monitoring,
                   notifications, sweep, req>>

\* ------------------------------- ActionsView.post with a failing statement
\* One request to ActionsView.post in which the statement failAt raises (the
\* database refuses it): the handler's except clause answers 500.
ApplyActionFault(st, act, sn1, sn2, failAt) ==
    /\ Len(actions) < MaxActions
    /\ \E out \in {ActionsPost(Tables, st, act, sn1, sn2, today, failAt)} :
           /\ routers' = out.db.routers
           /\ notifications' = out.db.notifications
           /\ actions' = out.db.actions
           /\ last' = [op |-> "action", status |-> out.status, message |-> out.message]
    /\ UNCHANGED <<today, categories, logs, monitoring, sweep, req>>

\* ------------------------------------ ActionsView.post, statement by statement
IdleReq ==
    [pc |-> "idle", st |-> NoStore, act |-> "", id1 |-> 0, r1 |-> NoRouter,
     id2 |-> 0, r2 |-> NoRouter, router2 |-> 0]

InFlight == Cardinality({p \in Procs : req[p].pc # "idle"})

\* Lines 1067-1148 of request p: the routers are loaded and the transition is
\* decided on the loaded instances (no statement of these lines after the
\* loads touches the database).
ReqLoad(p, st, act, sn1, sn2) ==
    /\ req[p].pc = "idle"
    /\ Len(actions) + InFlight < MaxActions
    /\ \E rv \in {Resolve(Tables, st, act, sn1, sn2, today)} :
       \E t \in {Transition(act, st, rv.r1, rv.id2, rv.r2, rv.db.mail)} :
           /\ routers' = rv.db.routers
           /\ notifications' = rv.db.notifications
           /\ IF rv.id1 = 0
              THEN /\ last' = [op |-> "action", status |-> 500, message |-> "not found"]
                   /\ UNCHANGED req
              ELSE IF t.outcome # "ok"
              THEN /\ last' = [op |-> "action", status |-> 500, message |-> t.message]
                   /\ UNCHANGED req
              ELSE /\ req' = [req EXCEPT ![p] =
                            [pc |-> "create", st |-> st, act |-> act, id1 |-> rv.id1,
                             r1 |-> t.r1, id2 |-> rv.id2, r2 |-> t.r2,
                             router2 |-> t.router2]]
                   /\ UNCHANGED last
    /\ UNCHANGED <<today, categories, actions, logs, monitoring, sweep>>

\* Line 1150 of request p
ReqCreate(p) ==
    /\ req[p].pc = "create"
    /\ actions' = ActionCreate(Tables, req[p].st, req[p].act, req[p].id1, req[p].router2).actions
    /\ req' = [req EXCEPT ![p].pc = "save1"]
    /\ UNCHANGED <<today, routers, categories, logs, monitoring, notifications, sweep, last>>

\* Line 1152 of request p
ReqSave1(p) ==
    /\ req[p].pc = "save1"
    /\ \E d \in {RouterSave(Tables, req[p].id1, req[p].r1, today)} :
           /\ routers' = d.routers
           /\ notifications' = d.notifications
    /\ req' = [req EXCEPT ![p].pc = "save2"]
    /\ UNCHANGED <<today, categories, actions, logs, monitoring, sweep, last>>

\* Lines 1153-1159 of request p
ReqSave2(p) ==
    /\ req[p].pc = "save2"
    /\ \E d \in {IF req[p].id2 # 0
                  THEN RouterSave(Tables, req[p].id2, req[p].r2, today)
                  ELSE Tables} :
           /\ routers' = d.routers
           /\ notifications' = d.notifications
    /\ req' = [req EXCEPT ![p] = IdleReq]
    /\ last' = [op |-> "action", status |-> 200, message |-> ""]
    /\ UNCHANGED <<today, categories, actions, logs, monitoring, sweep>>

\* --------------------------------------- create_monitoring, statement by statement
\* after the save (or the logged exception) of the k-th pair
SweepAdvance(th) ==
    IF th.k < Len(SweepList)
    THEN [th EXCEPT !.pc = "start", !.k = th.k + 1, !.n = 0, !.monitor = 0]
    ELSE [th EXCEPT !.pc = "idle", !.k = 0, !.n = 0, !.monitor = 0]

\* ------------------------------ SwitchStore.post, statement by statement
\* Lines 1233-1236 of request p: the router is loaded and given its new store.
SwitchLoad(p, id, st) ==
    /\ req[p].pc = "idle"
    /\ RouterById(routers, id) # 0
    /\ req' = [req EXCEPT ![p] = [IdleReq EXCEPT !.pc = "write", !.st = st, !.id1 = id,
                                   !.r1 = [routers[id] EXCEPT !.store = st]]]
    /\ UNCHANGED <<today, routers, categories, actions, logs, monitoring,
                   notifications, sweep, last>>

\* Line 1237, router.save(): the row is written; post_save comes next.
SwitchWrite(p) ==
    /\ req[p].pc = "write"
    /\ routers' = [routers EXCEPT ![req[p].id1] = req[p].r1]
    /\ req' = [req EXCEPT ![p].pc = "check"]
    /\ UNCHANGED <<today, categories, actions, logs, monitoring, notifications,
                   sweep, last>>

\* models.py line 224 in request p: the test of router_changed.
SignalCheck(p) ==
    /\ req[p].pc = "check"
    /\ IF /\ StoreCountRouters(routers, req[p].st) < StoreAlertOn[req[p].st]
          /\ ~NotifiedToday(notifications, req[p].st, today)
       THEN /\ req' = [req EXCEPT ![p].pc = "notify"]
            /\ UNCHANGED last
       ELSE /\ req' = [req EXCEPT ![p] = IdleReq]
            /\ last' = [op |-> "switch_store", status |-> 200,
                        message |-> "Store switched successfully"]
    /\ UNCHANGED <<today, routers, categories, actions, logs, monitoring,
                   notifications, sweep>>

\* models.py lines 225-226 in request p: the email is sent and the Notification
\* row created; the request then answers.
SignalNotify(p) ==
    /\ req[p].pc = "notify"
    /\ notifications' = Append(notifications, [store |-> req[p].st, date_sent |-> today])
    /\ req' = [req EXCEPT ![p] = IdleReq]
    /\ last' = [op |-> "switch_store", status |-> 200,
                message |-> "Store switched successfully"]
    /\ UNCHANGED <<today, routers, categories, actions, logs, monitoring, sweep>>

\* Line 26: routers = category.count_routers()
SweepCount(t) ==
    /\ sweep[t].pc = "start"
    /\ sweep' = [sweep EXCEPT ![t].pc = "get",
                              ![t].n = CategoryCountRouters(routers, SweepList[sweep[t].k])]
    /\ UNCHANGED <<today, routers, categories, actions, logs, monitoring,
                   notifications, req, last>>

\* Line 27, the get of get_or_create
SweepGet(t) ==
    /\ sweep[t].pc = "get"
    /\ \E m \in {MonitoringMatches(monitoring, SweepList[sweep[t].k], today)} :
           sweep' = [sweep EXCEPT ![t] =
                IF m = {} THEN [@ EXCEPT !.pc = "create"]
                ELSE IF Cardinality(m) = 1
                THEN [@ EXCEPT !.pc = "save", !.monitor = CHOOSE i \in m : TRUE]
                ELSE SweepAdvance(@)]
    /\ UNCHANGED <<today, routers, categories, actions, logs, monitoring,
                   notifications, req, last>>

\* Line 27, the create of get_or_create
SweepCreate(t) ==
    /\ sweep[t].pc = "create"
    /\ monitoring' = MonitoringCreate(monitoring, SweepList[sweep[t].k], today)
    /\ sweep' = [sweep EXCEPT ![t].pc = "save", ![t].monitor = Len(monitoring) + 1]
    /\ UNCHANGED <<today, routers, categories, actions, logs, notifications, req, last>>

\* Lines 28-29
SweepSave(t) ==
    /\ sweep[t].pc = "save"
    /\ monitoring' = MonitoringSave(monitoring, sweep[t].monitor, sweep[t].n, today)
    /\ sweep' = [sweep EXCEPT ![t] = SweepAdvance(@)]
    /\ UNCHANGED <<today, routers, categories, actions, logs, notifications, req, last>>

\* ----------------------------------------------------------- specifications
\* The database after the stores and the two categories of store A were made
\* (CreateStoreView.post, CreateCategoryView.post): no router yet.
Init ==
    /\ today = 1
    /\ routers = <<>>
    /\ categories = [c \in Cats |-> [deleted |-> FALSE, alerted |-> FALSE]]
    /\ actions = <<>>
    /\ logs = <<>>
    /\ monitoring = <<>>
    /\ notifications = <<>>
    /\ sweep = [t \in Threads |-> IdleThread]
    /\ req = [p \in Procs |-> IdleReq]
    /\ last = [op |-> "init"]

DoCreateRouter ==
    \E role \in Roles, st \in Stores, c \in {"c1", NoCat}, sn \in Serials :
        CreateRouter(role, st, c, sn)
DoApplyAction ==
    \E st \in Stores, act \in ACTION_TYPES, sn1 \in Serials, sn2 \in SecondSerials :
        ApplyAction(st, act, sn1, sn2)

\* The router lifecycle: every request runs from start to end before the next.
Next ==
    \/ DoCreateRouter
    \/ DoApplyAction

Spec == Init /\ [][Next]_vars

\* The lifecycle with statements of ActionsView.post that may fail.
DoApplyActionFault ==
    \E st \in Stores, act \in ACTION_TYPES, sn1 \in Serials, sn2 \in SecondSerials,
       failAt \in {"action", "router1", "router2"} :
        ApplyActionFault(st, act, sn1, sn2, failAt)

NextFault ==
    \/ DoCreateRouter
    \/ DoApplyAction
    \/ DoApplyActionFault

SpecFault == Init /\ [][NextFault]_vars

\* Two ActionsView.post requests of store A's staff interleaved statement by
\* statement (each statement is its own transaction).
StockRouter == \E sn \in Serials : CreateRouter("store_manager", "A", "c1", sn)
SellRouter == ApplyAction("A", "sale", "X", NoSerial)
DoReqLoad ==
    \E p \in Procs, act \in {"sale", "collect", "return"}, sn1 \in Serials :
        ReqLoad(p, "A", act, sn1, NoSerial)
DoReqCreate == \E p \in Procs : ReqCreate(p)
DoReqSave1 == \E p \in Procs : ReqSave1(p)
DoReqSave2 == \E p \in Procs : ReqSave2(p)

NextConc ==
    \/ StockRouter
    \/ DoReqLoad
    \/ DoReqCreate
    \/ DoReqSave1
    \/ DoReqSave2

SpecConc == Init /\ [][NextConc]_vars

\* The daily snapshot: sweeps run one after the other, from start to end.
NextDay == Midnight(MaxDay)
DoProcessRequest == \E t \in Threads : ProcessRequest(t)
DoRunMonitoring == \E t \in Threads : RunMonitoring(t)
DoRunAlerts == \E t \in Threads : RunAlerts(t)

NextSnapshot ==
    \/ StockRouter
    \/ DoProcessRequest
    \/ DoRunMonitoring
    \/ DoRunAlerts
    \/ NextDay

SpecSnapshot == Init /\ [][NextSnapshot]_vars

\* The dashboard's trend over the days: one sweep at a time.
HomeRequest == ProcessRequest(1)
Monitor == RunMonitoring(1)
Alert == RunAlerts(1)
Dashboard == \E st \in Stores : DashboardGet(st)
TrendNextDay == Midnight(MaxTrendDay)

NextTrend ==
    \/ StockRouter
    \/ SellRouter
    \/ HomeRequest
    \/ Monitor
    \/ Alert
    \/ TrendNextDay
    \/ Dashboard

SpecTrend == Init /\ [][NextTrend]_vars

\* Sweeps started by racing requests, interleaved statement by statement.
DoSweepCount == \E t \in Threads : SweepCount(t)
DoSweepGet == \E t \in Threads : SweepGet(t)
DoSweepCreate == \E t \in Threads : SweepCreate(t)
DoSweepSave == \E t \in Threads : SweepSave(t)

NextSweep ==
    \/ StockRouter
    \/ DoProcessRequest
    \/ DoSweepCount
    \/ DoSweepGet
    \/ DoSweepCreate
    \/ DoSweepSave
    \/ DoRunAlerts

SpecSweep == Init /\ [][NextSweep]_vars

\* Router saves over the days: creation, edit, store switch and sale, one
\* request at a time.
DoSwitchStore == \E id \in RouterIds, st \in Stores \cup {NoStore} : SwitchStorePost(id, st)
EditRouter ==
    /\ Len(logs) < MaxLogs
    /\ \E role \in Roles, status \in {"in_stock", "collected"} :
           RouterPut(role, "A", 1, "c1", "X", status)

NextNotify ==
    \/ StockRouter
    \/ DoSwitchStore
    \/ EditRouter
    \/ SellRouter
    \/ NextDay

SpecNotify == Init /\ [][NextNotify]_vars

\* Two SwitchStore.post requests interleaved statement by statement.
DoSwitchLoad == \E p \in Procs, id \in RouterIds, st \in Stores : SwitchLoad(p, id, st)
DoSwitchWrite == \E p \in Procs : SwitchWrite(p)
DoSignalCheck == \E p \in Procs : SignalCheck(p)
DoSignalNotify == \E p \in Procs : SignalNotify(p)

NextNotifyRace ==
    \/ StockRouter
    \/ DoSwitchLoad
    \/ DoSwitchWrite
    \/ DoSignalCheck
    \/ DoSignalNotify

SpecNotifyRace == Init /\ [][NextNotifyRace]_vars

\* The management requests of store A's staff (routers in bulk, categories,
\* router edits, import, store switch) and the alert evaluation, one at a time.
DoCreateRouters ==
    /\ Len(logs) < MaxLogs
    /\ \E role \in Roles, sns \in {<<>>, <<"X">>, <<"X", "Y">>} :
           CreateRouters(role, "A", "c1", sns)
DoCategoryPut ==
    /\ Len(logs) < MaxLogs
    /\ \E role \in Roles, cat \in {"c1", NoCat} : CategoryPut(role, "A", cat)
DoCategoryDelete ==
    /\ Len(logs) < MaxLogs
    /\ \E role \in Roles, cat \in {"c1", NoCat} : CategoryDelete(role, "A", cat)
DoRouterImport ==
    /\ Len(logs) < MaxLogs
    /\ \E id \in RouterIds, cat \in {"c1", NoCat} : RouterImport("A", id, cat, "X")
DoRouterDelete ==
    /\ Len(logs) < MaxLogs
    /\ \E role \in Roles, id \in RouterIds : RouterDelete(role, "A", id)
DoRouterPatch == \E id \in RouterIds : RouterPatch("A", id)
SwitchStore == \E st \in Stores \cup {NoStore} : SwitchStorePost(1, st)

NextCrud ==
    \/ DoCreateRouters
    \/ DoCategoryPut
    \/ DoCategoryDelete
    \/ DoRouterImport
    \/ EditRouter
    \/ DoRouterDelete
    \/ DoRouterPatch
    \/ SwitchStore
    \/ HomeRequest
    \/ Alert
    \/ Monitor

SpecCrud == Init /\ [][NextCrud]_vars

\* Stocking and actions: what a request persists and answers when the email
\* service accepts or refuses its messages.
NextMail ==
    \/ StockRouter
    \/ DoApplyAction

SpecMail == Init /\ [][NextMail]_vars

\* Serial numbers: every request that writes Router.serial_number, by any
\* store, with serial numbers that exist and that do not.
AddRouter ==
    \E st \in Stores, sn \in Serials : CreateRouter("store_manager", st, "c1", sn)
AddRouters ==
    /\ Len(logs) < MaxLogs
    /\ \E sns \in {<<"X", "Y">>, <<"Y", "X">>, <<"X", "X">>} :
           CreateRouters("store_manager", "A", "c1", sns)
ImportRouter ==
    /\ Len(logs) < MaxLogs
    /\ \E id \in RouterIds, sn \in Serials : RouterImport("A", id, "c1", sn)
EditSerial ==
    /\ Len(logs) < MaxLogs
    /\ \E st \in Stores, id \in RouterIds, sn \in Serials :
           RouterPut("store_manager", st, id, "c1", sn, "in_stock")
RemoveRouter ==
    /\ Len(logs) < MaxLogs
    /\ \E st \in Stores, id \in RouterIds : RouterDelete("store_manager", st, id)
SwapRouters ==
    \E sn1 \in Serials : \E sn2 \in Serials \ {sn1} : ApplyAction("B", "swap", sn1, sn2)

NextSerial ==
    \/ AddRouter
    \/ AddRouters
    \/ ImportRouter
    \/ EditSerial
    \/ RemoveRouter
    \/ SwapRouters

SpecSerial == Init /\ [][NextSerial]_vars

\* Action types: requests to ActionsView.post whose body carries one of
\* Action.ACTIONS or a string that is none of them.
RequestTypes == ACTION_TYPES \cup {"audit"}

DoApplyAnyAction ==
    \E st \in Stores, act \in RequestTypes, sn1 \in Serials, sn2 \in SecondSerials :
        ApplyAction(st, act, sn1, sn2)

NextTypes ==
    \/ StockRouter
    \/ DoApplyAnyAction

SpecTypes == Init /\ [][NextTypes]_vars

\* The dashboard of a store whose categories are soft-deleted and whose
\* routers change store.
NextTotals ==
    \/ StockRouter
    \/ DoCategoryDelete
    \/ SwitchStore
    \/ Dashboard

SpecTotals == Init /\ [][NextTotals]_vars

\* ------------------------------------------------------------------- claims
\* C1: a sale by store st on serial sn1 succeeds only if the store holds a router
\* with that serial whose status is in_stock, and then the status becomes
\* new_sale; a sale on a router that is sold and not collected (new_sale) is
\* rejected, adds no Action row and leaves the status as it was.
C1_SaleOnlyFromInStock ==
    [][\A st \in Stores, sn1 \in Serials, sn2 \in SecondSerials :
        ApplyAction(st, "sale", sn1, sn2) =>
            LET id == ByStoreSerial(routers, st, sn1)
            IN  /\ last'.status = 200 =>
                    /\ id # 0
                    /\ routers[id].status = "in_stock"
                    /\ routers'[id].status = "new_sale"
                /\ (id # 0 /\ routers[id].status = "new_sale") =>
                    /\ last'.status = 500
                    /\ actions' = actions
                    /\ routers'[id].status = "new_sale"]_vars

\* C2: a collect on a router of the requesting store succeeds exactly when its
\* status is in_stock or new_sale, and then the status becomes collected; from
\* collected, return and swap it is rejected, adds no Action row and leaves the
\* status as it was.
C2_CollectFromStockOrSale ==
    [][\A st \in Stores, sn1 \in Serials, sn2 \in SecondSerials :
        (ApplyAction(st, "collect", sn1, sn2) /\ ByStoreSerial(routers, st, sn1) # 0) =>
            LET id == ByStoreSerial(routers, st, sn1)
            IN  /\ last'.status = 200 <=> routers[id].status \in {"in_stock", "new_sale"}
                /\ last'.status = 200 => routers'[id].status = "collected"
                /\ routers[id].status \in {"collected", "return", "swap"} =>
                    /\ last'.status = 500
                    /\ actions' = actions
                    /\ routers'[id].status = routers[id].status]_vars

\* C3: a return by store st on serial sn1 succeeds whatever the router's status
\* and wherever it is held (st, another store, no store, nowhere yet); afterwards
\* exactly one Router row has that serial, its status is return and its store st.
C3_ReturnRepatriates ==
    [][\A st \in Stores, sn1 \in Serials, sn2 \in SecondSerials :
        ApplyAction(st, "return", sn1, sn2) =>
            /\ last'.status = 200
            /\ Cardinality({i \in DOMAIN routers' : routers'[i].sn = sn1}) = 1
            /\ \A i \in DOMAIN routers' : routers'[i].sn = sn1 =>
                    /\ routers'[i].status = "return"
                    /\ routers'[i].store = st
            /\ BySerial(routers, sn1) # 0 => BySerial(routers', sn1) = BySerial(routers, sn1)]_vars

\* C4: a successful swap by store st with primary serial sn1 and secondary serial
\* sn2 leaves router1 collected and in store st, router2 with status swap, and
\* exactly one new Action row, of type swap, with router1 as router and router2 as
\* router2; the routers' former statuses do not matter.
C4_SwapEffects ==
    [][\A st \in Stores, sn1 \in Serials, sn2 \in SecondSerials :
        (ApplyAction(st, "swap", sn1, sn2) /\ last'.status = 200) =>
            /\ sn2 # NoSerial
            /\ routers'[BySerial(routers', sn1)].status = "collected"
            /\ routers'[BySerial(routers', sn1)].store = st
            /\ routers'[BySerial(routers', sn2)].status = "swap"
            /\ actions' = Append(actions, [store |-> st, action |-> "swap",
                                           router |-> BySerial(routers', sn1),
                                           router2 |-> BySerial(routers', sn2)])]_vars

\* C5: a request to ActionsView.post that is not answered 200 (router not found,
\* transition refused, exception) leaves the tables as they were: no Router row
\* made or changed, no Action, Log or Notification row added.
C5_RejectedChangesNothing ==
    [][\A st \in Stores, act \in ACTION_TYPES, sn1 \in Serials, sn2 \in SecondSerials :
        (ApplyAction(st, act, sn1, sn2) /\ last'.status # 200) =>
            /\ routers' = routers
            /\ actions' = actions
            /\ logs' = logs
            /\ notifications' = notifications]_vars
\* C6: the writes of one request to ActionsView.post are all-or-nothing: when one
\* of its write statements raises (the request is answered 500), no Action row
\* has been added and no Router row that existed before has been changed.
C6_AllOrNothing ==
    [][\A st \in Stores, act \in ACTION_TYPES, sn1 \in Serials, sn2 \in SecondSerials,
          failAt \in {"action", "router1", "router2"} :
        (ApplyActionFault(st, act, sn1, sn2, failAt) /\ last'.status = 500) =>
            /\ actions' = actions
            /\ \A i \in DOMAIN routers : routers'[i] = routers[i]]_vars

\* C7: transitions of one router are serialized: the Action table never holds two
\* sale rows for the same router without a collect row for that router between
\* them.
C7_SalesSerialized ==
    \A i \in DOMAIN actions, j \in DOMAIN actions :
        (/\ i < j
         /\ actions[i].action = "sale"
         /\ actions[j].action = "sale"
         /\ actions[i].router = actions[j].router) =>
            \E k \in (i + 1)..(j - 1) :
                /\ actions[k].router = actions[i].router
                /\ actions[k].action # "sale"

\* C8: when the snapshot routine has run on a day on which rows of that day were
\* already there (a second run of the day), and after any other run, the table
\* holds exactly one Monitoring row per store and category for today, and its
\* count is the live count at that run.
C8_SameDayUpsert ==
    last.op = "sweep" =>
        \A c \in Cats :
            LET rows == {i \in DOMAIN monitoring :
                            /\ monitoring[i].store = CatStore[c]
                            /\ monitoring[i].category = c
                            /\ monitoring[i].day = today}
            IN  /\ Cardinality(rows) = 1
                /\ \A i \in rows : monitoring[i].routers = CategoryCountRouters(routers, c)

\* C8, its case: a run that found today's row of every category, one of them
\* holding another count than the live one, and left a positive count.
C8_SecondRunOverwrote ==
    /\ last.op = "sweep"
    /\ last.found = Cats
    /\ \E c \in last.stale : CategoryCountRouters(routers, c) > 0
    /\ \E i \in DOMAIN monitoring : monitoring[i].day < today

\* C9: whatever the interleaving of the sweeps started by concurrent requests,
\* the Monitoring table holds at most one row per store, category and day.
C9_OneRowPerCategoryDay ==
    \A i \in DOMAIN monitoring, j \in DOMAIN monitoring :
        (/\ monitoring[i].store = monitoring[j].store
         /\ monitoring[i].category = monitoring[j].category
         /\ monitoring[i].day = monitoring[j].day) => i = j
\* C10: the per-category trend of the dashboard has a value for each of the five
\* days: today's is the live count, whatever row is stored for today; a past
\* day's is the stored count of that day when it has a row, a stored 0
\* included, else the value of the day before, and 0 when that past day is the
\* first of the window.
C10_TrendGapFree ==
    last.op = "dashboard" =>
        /\ DOMAIN last.monitors =
                {c \in Cats : CatStore[c] = last.store /\ ~categories[c].deleted}
        /\ \A c \in DOMAIN last.monitors :
            LET v == last.monitors[c]
            IN  /\ Len(v) = Days
                /\ v[Days] = CategoryCountRouters(routers, c)
                /\ \A k \in 1..(Days - 1) :
                    LET rows == {i \in DOMAIN monitoring :
                                    /\ monitoring[i].store = last.store
                                    /\ monitoring[i].category = c
                                    /\ monitoring[i].day = today - (Days - k)}
                    IN  IF rows # {} THEN \A i \in rows : v[k] = monitoring[i].routers
                        ELSE IF k = 1 THEN v[k] = 0
                        ELSE v[k] = v[k - 1]

\* C10, its case: a trend whose first day has a row with a positive count, a
\* later past day a stored 0, the day after that no row (the 0 is carried), and
\* whose value for today differs from the row stored for today.
C10_TrendWithGaps ==
    /\ last.op = "dashboard"
    /\ \E c \in DOMAIN last.monitors :
        /\ last.monitors[c][1] > 0
        /\ \E k \in 2..(Days - 2) :
            /\ \E i \in DOMAIN monitoring :
                /\ monitoring[i].category = c
                /\ monitoring[i].day = today - (Days - k)
                /\ monitoring[i].routers = 0
            /\ \A i \in DOMAIN monitoring :
                    monitoring[i].category = c => monitoring[i].day # today - (Days - k) + 1
        /\ \E i \in DOMAIN monitoring :
            /\ monitoring[i].category = c
            /\ monitoring[i].day = today
            /\ monitoring[i].routers # last.monitors[c][Days]

\* C11: the store-wide trend of the dashboard: a past day's total is the sum of
\* the counts of the store's Monitoring rows of that day when it has one (a sum
\* of 0 included), else the total of the day before, and the integer 0 when
\* that past day is the first of the window, whatever rows other stores or
\* other days have.
C11_StoreTrend ==
    last.op = "dashboard" =>
        LET v == last.store_monitors
        IN  /\ Len(v) = Days
            /\ \A k \in 1..(Days - 1) :
                LET rows == {i \in DOMAIN monitoring :
                                /\ monitoring[i].store = last.store
                                /\ monitoring[i].day = today - (Days - k)}
                IN  IF rows # {} THEN v[k] = SumCase(monitoring, last.store,
                                                    today - (Days - k), Len(monitoring))
                    ELSE IF k = 1 THEN v[k] = 0
                    ELSE v[k] = v[k - 1]

\* C12: with requests run one at a time (router creations, edits, store
\* switches, actions) the Notification table holds at most one row per
\* store and calendar day, however often the low-stock check ran that day.
C12_OneNotificationPerDay ==
    \A i \in DOMAIN notifications, j \in DOMAIN notifications :
        (/\ notifications[i].store = notifications[j].store
         /\ notifications[i].date_sent = notifications[j].date_sent) => i = j

\* C12, its case: store A, notified on two days, is still below its threshold
\* after the edit that was just made, the third logged change at least.
C12_CheckedAgain ==
    /\ last.op = "router_put"
    /\ last.status = 200
    /\ Len(logs) >= 3
    /\ StoreCountRouters(routers, "A") < StoreAlertOn["A"]
    /\ NotifiedToday(notifications, "A", today)
    /\ Cardinality({i \in DOMAIN notifications : notifications[i].store = "A"}) >= 2

\* C13: whatever the interleaving of two requests that save routers of the same
\* store, no store has two Notification rows (two low-stock emails) of one day.
C13_OneNotificationUnderRace ==
    \A st \in Stores, d \in 1..today :
        Cardinality({i \in DOMAIN notifications :
            notifications[i].store = st /\ notifications[i].date_sent = d}) <= 1

\* C14: an alert evaluation turns a category's alerted flag from false to true
\* exactly when its live in-stock count is strictly below its alert_on; an
\* alerted category stays as it is, nothing else of a category changes, and a
\* second evaluation right after it changes nothing.
C14_AlertTrips ==
    [][\A t \in Threads :
        RunAlerts(t) =>
            /\ \A c \in Cats :
                /\ categories'[c].alerted =
                        (categories[c].alerted
                            \/ CategoryCountRouters(routers, c) < CatAlertOn[c])
                /\ categories'[c].deleted = categories[c].deleted
            /\ create_alerts(categories', routers') = categories']_vars

\* C14, its case: after an evaluation, category c1 holds exactly alert_on
\* routers in stock and is not alerted, while c2, below its alert_on, is.
C14_EqualDoesNotTrip ==
    /\ last.op = "alerts"
    /\ CategoryCountRouters(routers, "c1") = CatAlertOn["c1"]
    /\ ~categories["c1"].alerted
    /\ CategoryCountRouters(routers, "c2") < CatAlertOn["c2"]
    /\ categories["c2"].alerted

\* C15: the alerted flag is a latch: a step that adds no router to a category
\* (no new row of it, no row moved into it, none of its rows re-activated)
\* leaves an alerted category alerted.
C15_AlertedLatch ==
    [][\A c \in Cats :
        (/\ categories[c].alerted
         /\ ~\E i \in DOMAIN routers' :
                /\ routers'[i].category = c
                /\ \/ i \notin DOMAIN routers
                   \/ routers[i].category # c
                   \/ routers[i].deleted /\ ~routers'[i].deleted)
            => categories'[c].alerted]_vars

\* C16: after a request that created a router or changed a router's status or
\* store, the store that router is now in has a Notification row of today if
\* its in-stock count is strictly below its alert_on; and a request adds a
\* Notification row only for a store whose count is strictly below its alert_on.
C16_ReactiveCheck ==
    [][/\ \A i \in DOMAIN routers' :
            (\/ i \notin DOMAIN routers
             \/ routers'[i].status # routers[i].status
             \/ routers'[i].store # routers[i].store) =>
                ((/\ routers'[i].store # NoStore
                  /\ StoreCountRouters(routers', routers'[i].store)
                         < StoreAlertOn[routers'[i].store]) =>
                     NotifiedToday(notifications', routers'[i].store, today'))
       /\ \A n \in (Len(notifications) + 1)..Len(notifications') :
            StoreCountRouters(routers', notifications'[n].store)
                < StoreAlertOn[notifications'[n].store]]_vars

\* C16, its case: on the second day a store switch has just put a router into
\* store B, which is below its alert_on and got its Notification row of that
\* day, while store A holds exactly alert_on routers in stock and got none.
C16_NotifiedOnSwitch ==
    /\ last.op = "switch_store"
    /\ last.status = 200
    /\ today = 2
    /\ \E i \in DOMAIN routers : routers[i].store = "B"
    /\ NotifiedToday(notifications, "B", today)
    /\ StoreCountRouters(routers, "A") < StoreAlertOn["A"]
    /\ NotifiedToday(notifications, "A", today)

\* C17: a successful request to ActionsView.post appends one Log row per router
\* it created or changed, and no other: instance router, instance_id that
\* router's id, action add for a router the request created and edit for a
\* router it changed.
C17_ActionsAudited ==
    [][\A st \in Stores, act \in ACTION_TYPES, sn1 \in Serials, sn2 \in SecondSerials :
        (ApplyAction(st, act, sn1, sn2) /\ last'.status = 200) =>
            LET mutated == {i \in DOMAIN routers' :
                               i \notin DOMAIN routers \/ routers'[i] # routers[i]}
                added == (Len(logs) + 1)..Len(logs')
            IN  /\ Cardinality(added) = Cardinality(mutated)
                /\ \A i \in mutated : \E n \in added :
                       /\ logs'[n].instance = "router"
                       /\ logs'[n].instance_id = i
                       /\ logs'[n].action =
                              IF i \in DOMAIN routers THEN "edit" ELSE "add"]_vars

\* C18: a request of the CRUD views appends exactly one Log row for each router
\* it created or changed and for each category it soft-deleted; the row has
\* that entity's kind and id, and its action is add for a created router,
\* delete for a soft-delete and edit for any other change.
C18_CrudAudited ==
    [][LET added == (Len(logs) + 1)..Len(logs')
           rows(kind, id) == {n \in added : /\ logs'[n].instance = kind
                                              /\ logs'[n].instance_id = id}
       IN  /\ \A i \in DOMAIN routers' :
                (i \notin DOMAIN routers \/ routers'[i] # routers[i]) =>
                    /\ Cardinality(rows("router", i)) = 1
                    /\ \A n \in rows("router", i) :
                           logs'[n].action =
                               IF i \notin DOMAIN routers THEN "add"
                               ELSE IF routers'[i].deleted /\ ~routers[i].deleted
                               THEN "delete"
                               ELSE "edit"
           /\ \A c \in Cats :
                (categories'[c].deleted /\ ~categories[c].deleted) =>
                    /\ Cardinality(rows("category", c)) = 1
                    /\ \A n \in rows("category", c) : logs'[n].action = "delete"]_vars

\* C19: whether the email service accepts the messages of a request or raises on
\* them changes neither what the request persists nor what it answers: for
\* every request to ActionsView.post the Router, Notification and Action tables
\* and the response are the same in both cases, and so are the tables after
\* every save of a router, the saves that trip the low-stock check included.
C19_MailFailureChangesNothing ==
    /\ \A st \in Stores, act \in ACTION_TYPES, sn1 \in Serials, sn2 \in SecondSerials :
          \E a \in {ActionsPost(TablesWith("sent"), st, act, sn1, sn2, today, "none")} :
          \E b \in {ActionsPost(TablesWith("raises"), st, act, sn1, sn2, today, "none")} :
              /\ a.db.routers = b.db.routers
              /\ a.db.notifications = b.db.notifications
              /\ a.db.actions = b.db.actions
              /\ a.status = b.status
              /\ a.message = b.message
    /\ \A i \in DOMAIN routers, st \in Stores, k \in DOMAIN STATUSES :
          \E inst \in {[routers[i] EXCEPT !.store = st, !.status = STATUSES[k]]} :
          \E a \in {RouterSave(TablesWith("sent"), i, inst, today)} :
          \E b \in {RouterSave(TablesWith("raises"), i, inst, today)} :
              /\ a.routers = b.routers
              /\ a.notifications = b.notifications
              /\ a.exc = b.exc

\* C19, its case: a return by store B of a router of store A has sent the
\* 'Router Returned' email and, on saving the router into B, the low-stock email
\* of B, whose Notification row follows that of A.
C19_ReturnMailedTwice ==
    /\ last.op = "action"
    /\ last.status = 200
    /\ Len(routers) = 1
    /\ routers[1].store = "B"
    /\ routers[1].status = "return"
    /\ actions = <<[store |-> "B", action |-> "return", router |-> 1, router2 |-> 0]>>
    /\ notifications = <<[store |-> "A", date_sent |-> today],
                         [store |-> "B", date_sent |-> today]>>

\* C20: in every reachable state the live count of a store and the live count
\* of a category (the values the trends show for today) count exactly the
\* routers that are in_stock, not soft-deleted, and not in a soft-deleted
\* category.
C20_CountsExcludeDeleted ==
    LET live == {i \in DOMAIN routers :
                    /\ routers[i].status = "in_stock"
                    /\ ~routers[i].deleted
                    /\ \/ routers[i].category = NoCat
                       \/ ~categories[routers[i].category].deleted}
    IN  /\ \A st \in Stores :
              StoreCountRouters(routers, st)
                  = Cardinality({i \in live : routers[i].store = st})
        /\ \A c \in Cats :
              CategoryCountRouters(routers, c)
                  = Cardinality({i \in live : routers[i].category = c})

\* C21: no two Router rows, soft-deleted ones included, ever share a serial
\* number; and a single create, an import or an edit that names a serial number
\* another router has changes no Router row and adds no Log row, while a bulk
\* create adds one router and one Log row for each serial number of its list
\* that no router had, and nothing for the others.
C21_SerialUnique ==
    [][/\ \A i, j \in DOMAIN routers' : routers'[i].sn = routers'[j].sn => i = j
       /\ \A st \in Stores, sn \in Serials :
            (CreateRouter("store_manager", st, "c1", sn) /\ BySerial(routers, sn) # 0) =>
                routers' = routers /\ logs' = logs
       /\ \A id \in RouterIds, sn \in Serials :
            (RouterImport("A", id, "c1", sn) /\ BySerial(routers, sn) \notin {0, id}) =>
                routers' = routers /\ logs' = logs
       /\ \A st \in Stores, id \in RouterIds, sn \in Serials :
            (/\ RouterPut("store_manager", st, id, "c1", sn, "in_stock")
             /\ BySerial(routers, sn) \notin {0, id}) =>
                routers' = routers /\ logs' = logs
       /\ \A sns \in {<<"X", "Y">>, <<"Y", "X">>, <<"X", "X">>} :
            CreateRouters("store_manager", "A", "c1", sns) =>
                LET fresh == {sns[k] : k \in DOMAIN sns} \
                                 {routers[i].sn : i \in DOMAIN routers}
                IN  /\ Len(routers') = Len(routers) + Cardinality(fresh)
                    /\ Len(logs') = Len(logs) + Cardinality(fresh)
                    /\ \A i \in DOMAIN routers : routers'[i] = routers[i]
                    /\ \A i \in DOMAIN routers' \ DOMAIN routers :
                           routers'[i].sn \in fresh]_vars

\* C21, its case: router X was soft-deleted and a create with serial number X
\* has just been refused, X being still the only row with that serial number.
C21_RefusedAfterDelete ==
    /\ last.op = "create_router"
    /\ last.status = 500
    /\ last.message = "already exists"
    /\ \E i \in DOMAIN routers : routers[i].sn = "X" /\ routers[i].deleted
    /\ Cardinality({i \in DOMAIN routers : routers[i].sn = "X"}) = 1

\* C22: a router is created in_stock, its status is always one of STATUSES, and
\* no request other than one to ActionsView.post changes the status of an
\* existing router.
C22_StatusOnlyByAction ==
    [][\A i \in DOMAIN routers' :
          /\ routers'[i].status \in {STATUSES[k] : k \in DOMAIN STATUSES}
          /\ i \notin DOMAIN routers => routers'[i].status = "in_stock"
          /\ (i \in DOMAIN routers /\ last'.op # "action") =>
                 routers'[i].status = routers[i].status]_vars

\* C23: a successful swap by store st whose secondary serial sn2 no router has
\* yet leaves the router it creates for sn2 with status swap and without a
\* store, and the primary router collected and in store st.
C23_SwapCreatesStoreless ==
    [][\A st \in Stores, sn1 \in Serials :
       \A sn2 \in Serials \ {sn1} :
          (/\ ApplyAction(st, "swap", sn1, sn2)
           /\ last'.status = 200
           /\ BySerial(routers, sn2) = 0) =>
              /\ routers'[BySerial(routers', sn2)].status = "swap"
              /\ routers'[BySerial(routers', sn2)].store = NoStore
              /\ routers'[BySerial(routers', sn1)].status = "collected"
              /\ routers'[BySerial(routers', sn1)].store = st]_vars

\* C24: when the Monitoring rows of a category within the five-day window are
\* one for day-1 (count a) and one for day-3 (count b) and no other, the
\* category trend of the dashboard is 0, a, a, b, b, whatever the live count.
C24_BackfillScenario ==
    last.op = "dashboard" =>
        \A c \in DOMAIN last.monitors :
        \A i, j \in DOMAIN monitoring :
            (/\ monitoring[i].category = c /\ monitoring[i].day = DayAt(today, 2)
             /\ monitoring[j].category = c /\ monitoring[j].day = DayAt(today, 4)
             /\ \A n \in DOMAIN monitoring :
                    (monitoring[n].category = c /\ monitoring[n].day >= DayAt(today, 1))
                        => n \in {i, j}) =>
                last.monitors[c] = <<0, monitoring[i].routers, monitoring[i].routers,
                                     monitoring[j].routers, monitoring[j].routers>>

\* C25: after a sweep the (store, category) pairs that have a Monitoring row
\* dated today are exactly the categories that are not soft-deleted.
C25_SweepSkipsDeleted ==
    [][last'.op = "sweep" =>
          {<<monitoring'[i].store, monitoring'[i].category>> :
              i \in {n \in DOMAIN monitoring' : monitoring'[n].day = today'}}
          = {<<CatStore[c], c>> : c \in {d \in Cats : ~categories'[d].deleted}}]_vars

\* C26: a request that adds a router to a category (a router it creates there,
\* or a soft-deleted one it re-activates there) leaves that category not
\* alerted, and a request that adds none leaves an alerted category alerted.
C26_NewStockResetsLatch ==
    [][\A c \in Cats :
          LET added == \E i \in DOMAIN routers' :
                          /\ routers'[i].category = c
                          /\ \/ i \notin DOMAIN routers
                             \/ routers[i].deleted /\ ~routers'[i].deleted
          IN  /\ added => ~categories'[c].alerted
              /\ (~added /\ categories[c].alerted) => categories'[c].alerted]_vars

\* C27: a request to ActionsView.post of type sale, collect or return, with or
\* without a secondary serial, creates or changes no Router row other than the
\* primary router's, and the Action row it stores has no secondary router.
C27_SecondaryOnlyForSwap ==
    [][\A st \in Stores, act \in {"sale", "collect", "return"}, sn1 \in Serials,
          sn2 \in SecondSerials :
          ApplyAction(st, act, sn1, sn2) =>
              /\ \A i \in DOMAIN routers' \ {BySerial(routers', sn1)} :
                     i \in DOMAIN routers /\ routers'[i] = routers[i]
              /\ \A n \in DOMAIN actions' \ DOMAIN actions :
                     actions'[n].router2 = 0]_vars

\* C28: every Action row has a type of ACTION_TYPES, and a request to
\* ActionsView.post with any other type is not answered 200, stores no Action
\* row and writes no Router or Notification row.
C28_ActionTypeClosed ==
    [][/\ \A n \in DOMAIN actions' : actions'[n].action \in ACTION_TYPES
       /\ \A st \in Stores, act \in RequestTypes \ ACTION_TYPES, sn1 \in Serials,
             sn2 \in SecondSerials :
             ApplyAction(st, act, sn1, sn2) =>
                 /\ last'.status # 200
                 /\ actions' = actions
                 /\ routers' = routers
                 /\ notifications' = notifications]_vars

\* The sum of the values for today of the category trends vals of the
\* categories cs.
RECURSIVE SumToday(_, _)
SumToday(vals, cs) ==
    IF cs = {} THEN 0
    ELSE The({vals[c][Days] + SumToday(vals, cs \ {c}) : c \in {CHOOSE x \in cs : TRUE}})

\* C29: on the dashboard the store-wide value for today is the sum of the
\* values for today of the trends of the store's non-deleted categories.
C29_StoreTotalIsCategorySum ==
    last.op = "dashboard" =>
        /\ DOMAIN last.monitors = routers_categories(categories, last.store)
        /\ last.store_monitors[Days] = SumToday(last.monitors, DOMAIN last.monitors)

\* C30: a request to ActionsView.post never puts a router back in stock: a
\* router that was not in_stock before it is not in_stock after it, and no
\* store's in-stock count is higher after it than before.
C30_NeverBackInStock ==
    [][last'.op = "action" =>
          /\ \A i \in DOMAIN routers :
                 routers[i].status # "in_stock" => routers'[i].status # "in_stock"
          /\ \A st \in Stores :
                 StoreCountRouters(routers', st) <= StoreCountRouters(routers, st)]_vars

====
